---- MODULE Spec2Model ----
(***************************************************************************)
(* Model of the evcxr REPL front end (evcxr_repl/src/bin/evcxr.rs):        *)
(* the foreground read / dispatch / render loop of main, Repl::new and     *)
(* Repl::execute, the diagnostic renderer display_errors, the input        *)
(* validator RLHelper::validate, the two output forwarder threads spawned  *)
(* by send_output, and the history file handling of main.                  *)
(*                                                                         *)
(* Text is a sequence of tokens (one-character strings, or a word standing *)
(* for an opaque piece of text).  "\n" is the newline character, "LS" the  *)
(* character U+2028, "SOH" and "STX" the bytes 0x01 and 0x02.  Terminal    *)
(* colour escapes (the colored crate) have no width and are left out.      *)
(***************************************************************************)
EXTENDS Integers, Sequences, FiniteSets, TLC

\* ------------------------------------------------------------------ bounds
\* lines the foreground loop accepts in one session
MaxAccepted == 2
\* lines the evaluated code sends on the output channels in one session
MaxSend == 1
\* physical lines the line editor gathers into one buffer
MaxBufLines == 2
\* tokens of a buffer handed to the validator on its own
MaxLen == 4
\* largest column of a diagnostic span handed to the renderer on its own
MaxCol == 7
\* sequential sessions (process runs) sharing one history file
MaxSessions == 2
\* interrupts (Ctrl-C) the user sends in one session
MaxInterrupts == 1
\* lines accepted, and lines sent by the evaluated code, where the output
\* channels are looked at closely
OutReads == 1
OutSend == 2
\* lines accepted over all sessions where the history file is followed from
\* one session to the next
HistReads == 3

\* ------------------------------------------------------------ text helpers
RECURSIVE Flatten(_)
Flatten(ss) == IF ss = <<>> THEN <<>> ELSE Head(ss) \o Flatten(Tail(ss))

Repeat(c, n) == [i \in 1..n |-> c]

\* a slip in a loop: a reversed range is walked backwards
RangeCount_Abs(lo, hi) == IF hi > lo THEN hi - lo ELSE lo - hi

\* number of iterations of the Rust range lo..hi (empty when hi <= lo)
RangeCount(lo, hi) == IF hi > lo THEN hi - lo ELSE 0

StartsWith(s, c) == Len(s) > 0 /\ s[1] = c

SeqsUpTo(S, n) == UNION {[1..k -> S] : k \in 0..n}

IsPrefix(p, s) == Len(p) <= Len(s) /\ SubSeq(s, 1, Len(p)) = p

\* const PROMPT: &str = ">> ";
PROMPT == <<">", ">", " ">>

\* ----------------------------------------------- the hosted-language parser
\* The fragment of the Rust grammar that syn::parse_str::<syn::Stmt> is
\* exercised on here.  Tokens: identifiers a b c (expressions), "fn" (a
\* function header `fn name()`), braces, ";", ":" and white space "\n".
\*   Block ::= "{" Body "}"
\*   Body  ::= ( ";" | "fn" Block | Block | Ident ";" )* [ Ident ]
\*   Stmt  ::= "fn" Block | Block | Ident ";"        (all input consumed)
Ident == {"a", "b", "c"}
Tok == Ident \cup {"fn", "{", "}", ";", ":", "\n"}

\* the lexer drops white space
RECURSIVE Lex(_)
Lex(s) ==
  IF s = <<>> THEN <<>>
  ELSE IF Head(s) \in {"\n", " "} THEN Lex(Tail(s))
  ELSE <<Head(s)>> \o Lex(Tail(s))

\* ParseBody(s, i): the position at which a block body starting at i stops
\* (a "}" or the end of input), 0 on a syntax error.
\* ParseBlock(s, i): the position after the block starting at i, 0 on error.
RECURSIVE ParseBody(_, _), ParseBlock(_, _)
ParseBlock(s, i) ==
  IF i <= Len(s) /\ s[i] = "{"
  THEN LET j == ParseBody(s, i + 1)
       IN IF j # 0 /\ j <= Len(s) /\ s[j] = "}" THEN j + 1 ELSE 0
  ELSE 0
ParseBody(s, i) ==
  IF i > Len(s) \/ s[i] = "}" THEN i
  ELSE IF s[i] = ";" THEN ParseBody(s, i + 1)
  ELSE IF s[i] = "fn"
    THEN LET j == ParseBlock(s, i + 1) IN IF j = 0 THEN 0 ELSE ParseBody(s, j)
  ELSE IF s[i] = "{"
    THEN LET j == ParseBlock(s, i) IN IF j = 0 THEN 0 ELSE ParseBody(s, j)
  ELSE IF s[i] \in Ident
    THEN IF i + 1 <= Len(s) /\ s[i + 1] = ";" THEN ParseBody(s, i + 2)
         ELSE IF i + 1 > Len(s) \/ s[i + 1] = "}" THEN i + 1
         ELSE 0
  ELSE 0

\* syn::parse_str::<syn::Stmt>(code).is_ok()
ParseStmtOk(code) ==
  LET s == Lex(code)
      n == Len(s)
  IN IF n = 0 THEN FALSE
     ELSE IF s[1] = "fn" THEN ParseBlock(s, 2) = n + 1
     ELSE IF s[1] = "{" THEN ParseBlock(s, 1) = n + 1
     ELSE IF s[1] \in Ident THEN n = 2 /\ s[2] = ";"
     ELSE FALSE

\* --------------------------------------------------------- Input Validator
\* a slip in validate: the line is parsed as it stands
WrapCode_Unwrapped(line) == line

\* let code = format!("fn evcxr() {{ {} }}", line.as_str());
WrapCode(line) == <<"fn", "{", " ">> \o line \o <<" ", "}">>

\* a slip in validate: every buffer is accepted
Validate_AlwaysValid(line) == "Valid"

\* a slip in validate: the command prefix is not looked at
Validate_ParseOnly(line) ==
  IF ParseStmtOk(WrapCode(line)) THEN "Valid" ELSE "Incomplete"

\* RLHelper::validate
Validate(line) ==
  IF StartsWith(line, ":") \/ ParseStmtOk(WrapCode(line))
  THEN "Valid"
  ELSE "Incomplete"

\* ------------------------------------------------------ Diagnostic Renderer
None == <<>>
Some(x) == <<x>>

\* a slip in display_errors: the prompt's width is not added
SpannedLine_NoPrompt(sm) ==
  IF sm.span # None
  THEN LET span == sm.span[1]
       IN Repeat(" ", RangeCount(1, span.start_column))
          \o Repeat("^", RangeCount(span.start_column, span.end_column))
          \o <<" ", sm.label, "\n">>
  ELSE <<sm.label, "\n">>

\* one spanned message of display_errors: the caret line, or the bare label
SpannedLine(sm) ==
  IF sm.span # None
  THEN LET span == sm.span[1]
       IN Repeat(" ", RangeCount(1, span.start_column + Len(PROMPT)))
          \o Repeat("^", RangeCount(span.start_column, span.end_column))
          \o <<" ", sm.label, "\n">>
  ELSE <<sm.label, "\n">>

\* the lines display_errors prints for one CompilationError
ErrorLines(error) ==
  IF error.is_from_user_code
  THEN [i \in 1..Len(error.spanned_messages) |->
          SpannedLine(error.spanned_messages[i])]
       \o << <<error.message, "\n">> >>
       \o [i \in 1..Len(error.help) |-> <<"help:", " ", error.help[i], "\n">>]
       \o [i \in 1..Len(error.evcxr_extra_hint) |->
             <<error.evcxr_extra_hint[i], "\n">>]
  ELSE << <<"A compilation error was found in code we generated.", "\n",
            "Ideally this should't happen. Type :last_error_json to see details.",
            "\n", error.rendered, "\n">> >>

\* Repl::display_errors: the lines printed to standard output, in order
display_errors(errors) ==
  Flatten([i \in 1..Len(errors) |-> ErrorLines(errors[i])])

\* -------------------------------------------------------- Repl::execute
SuccessMarker == <<"SOH">>
FailureMarker == <<"STX">>

OutItem(text) == [stream |-> "stdout", text |-> text]
ErrItem(text) == [stream |-> "stderr", text |-> text]

IsMarker(item) ==
  item.stream = "stdout" /\ item.text \in {SuccessMarker, FailureMarker}

\* what execute prints for the engine's answer, before the marker
ResultOutput(r) ==
  IF r.tag = "Ok"
  THEN [i \in 1..Len(r.text) |-> OutItem(<<r.text[i], "\n">>)]
       \o (IF r.timing # None
           THEN << OutItem(<<"Took ", r.timing[1], "ms", "\n">>) >>
                \o [i \in 1..Len(r.phases) |->
                      OutItem(<<"  ", r.phases[i].name, ": ",
                                r.phases[i].duration, "ms", "\n">>)]
           ELSE <<>>)
  ELSE IF r.tag = "CompilationErrors"
  THEN LET ls == display_errors(r.errors)
       IN [i \in 1..Len(ls) |-> OutItem(ls[i])]
  ELSE << ErrItem(<<r.msg, "\n">>) >>

\* the success flag the match in execute evaluates to
Success(r) == r.tag = "Ok"

\* a slip in execute: the marker does not depend on the success flag
ExecuteOutput_FixedMarker(r, ide_mode) ==
  ResultOutput(r)
  \o (IF ide_mode THEN << OutItem(SuccessMarker) >> ELSE <<>>)

\* a slip in execute: the marker is printed for a success only
ExecuteOutput_SuccessOnly(r, ide_mode) ==
  ResultOutput(r)
  \o (IF ide_mode /\ Success(r) THEN << OutItem(SuccessMarker) >> ELSE <<>>)

\* Repl::execute after the engine call returned r: everything it prints,
\* in program order
ExecuteOutput(r, ide_mode) ==
  ResultOutput(r)
  \o (IF ide_mode
      THEN << OutItem(IF Success(r) THEN SuccessMarker ELSE FailureMarker) >>
      ELSE <<>>)

\* ------------------------------------------------------- history (rustyline)
\* Editor::add_history_entry with the editor's default configuration: an
\* empty line and a repeat of the newest entry are not recorded.
HistoryAdd(h, l) ==
  IF l = <<>> THEN h
  ELSE IF h # <<>> /\ h[Len(h)] = l THEN h
  ELSE Append(h, l)

\* a slip in saving: the entries are written without their line ends
SaveText_Unterminated(h) == Flatten(h)

\* Editor::save_history: every entry followed by a newline
SaveText(h) == Flatten([i \in 1..Len(h) |-> h[i] \o <<"\n">>])

\* the lines of a text file, without their terminators
RECURSIVE SplitLines(_, _)
SplitLines(f, cur) ==
  IF f = <<>> THEN (IF cur = <<>> THEN <<>> ELSE <<cur>>)
  ELSE IF Head(f) = "\n" THEN <<cur>> \o SplitLines(Tail(f), <<>>)
  ELSE SplitLines(Tail(f), Append(cur, Head(f)))

RECURSIVE AddAll(_, _)
AddAll(h, ls) == IF ls = <<>> THEN h ELSE AddAll(HistoryAdd(h, Head(ls)), Tail(ls))

\* Editor::load_history: every line of the file added as an entry
LoadText(f) == AddAll(<<>>, SplitLines(f, <<>>))

\* Editor::load_history returning an error: the file could not be opened, or
\* reading it failed at some line; the entries added before that stay
LoadFailed(f) ==
  LET ls == SplitLines(f.text, <<>>)
  IN IF f.exists
     THEN {AddAll(<<>>, SubSeq(ls, 1, k)) : k \in 0..Len(ls)}
     ELSE {<<>>}

\* ---------------------------------------------------------- readline_direct
\* line.replace('\u{2028}', "\n")
ReplaceLS(l) == [i \in 1..Len(l) |-> IF l[i] = "LS" THEN "\n" ELSE l[i]]

\* ------------------------------------------------------------ the program
VARIABLES
  pc,               \* position of the foreground thread (main)
  options,          \* Options: disable_readline, ide_mode
  caller,           \* who called Repl::execute: "new" or "main"
  to_run,           \* the argument of the current Repl::execute call
  result,           \* what CommandContext::execute returned to it
  toPrint,          \* what that call still has to print
  emitted,          \* what that call has printed so far
  markers,          \* marker bytes printed since the process started
  buffer,           \* the line editor's buffer during editor.readline
  validation,       \* the validator's last answer
  readline,         \* the value of `readline` matched in main's loop
  history,          \* the editor's in-memory history
  opt_history_file, \* whether main holds Some(history_file)
  historyFile,      \* history.txt on disk
  chan,             \* outputs.stdout / outputs.stderr: lines in flight
  closed,           \* the engine has dropped the senders
  fwd,              \* position of each send_output thread
  fwdLine,          \* the line a send_output thread has received
  term,             \* what main, outside execute, has written to each stream
  forwarded,        \* what each send_output thread has written to its stream
  accepted,         \* lines read as Ok(line) in this session, in order
  loaded,           \* the history as load_history left it
  sent,             \* lines the engine has sent per channel, in order
  io,               \* outcomes of this session's file operations
  session,          \* number of the running process
  prev              \* how the previous session ended

vars == <<pc, options, caller, to_run, result, toPrint, emitted, markers, buffer,
          validation, readline, history, opt_history_file, historyFile, chan,
          closed, fwd, fwdLine, term, forwarded, accepted, loaded, sent, io,
          session, prev>>

execVars == <<caller, to_run, result, toPrint, emitted, markers>>
readVars == <<buffer, validation, readline>>
histVars == <<history, opt_history_file, historyFile, accepted, loaded, io>>
chanVars == <<chan, closed, sent>>
fwdVars == <<fwd, fwdLine, forwarded>>
procVars == <<options, session, prev>>

Channels == {"stdout", "stderr"}

LoadConfig == <<":", "load_config">>
Banner == <<"Welcome to evcxr. For help, type :help", "\n">>

\* The two terminal streams are kept per writer: term holds what main wrote
\* outside Repl::execute, emitted what the current call of Repl::execute
\* wrote, forwarded what each forwarder wrote.  Every print locks its
\* stream, so a write is one item of a sequence.  The prints of the foreground
\* thread are taken to succeed; a forwarder's write may fail (line 46).
Put(t, stream, text) == [t EXCEPT ![stream] = Append(@, text)]

\* ----- the engine's answers (CommandContext::execute is opaque)
Result(tag, text, timing, phases, errors, msg) ==
  [tag |-> tag, text |-> text, timing |-> timing, phases |-> phases,
   errors |-> errors, msg |-> msg]
Span(s, e) == [start_column |-> s, end_column |-> e]
Diagnostic(user, spanned, help, hint) ==
  [is_from_user_code |-> user, spanned_messages |-> spanned, message |-> "E",
   help |-> help, evcxr_extra_hint |-> hint, rendered |-> "R"]

OkValue == Result("Ok", Some("v"), None, <<>>, <<>>, "")
OkTimed ==
  Result("Ok", None, Some("5"), <<[name |-> "p", duration |-> "2"]>>, <<>>, "")
CompErr ==
  Result("CompilationErrors", None, None, <<>>,
         << Diagnostic(TRUE, << [span |-> Some(Span(4, 7)), label |-> "L"] >>,
                       <<"H">>, None) >>, "")
OtherErr == Result("Other", None, None, <<>>, <<>>, "M")
NoResult == Result("None", None, None, <<>>, <<>>, "")

EngineResults == {OkValue, OkTimed, CompErr, OtherErr}

\* ----- what the user can type
TypedLines == {<<>>, <<"a">>, <<"fn", "{">>, <<"}">>, <<":", "}">>}
\* raw lines on standard input: terminated, or cut short by end of input
StdinLines ==
  {l \o <<"\n">> : l \in TypedLines} \cup {<<"a">>, <<"a", "LS", "\n">>}
OutputLines == {"x"}

NoReadline == [tag |-> "None", line |-> <<>>, validated |-> FALSE]
NoFile == [exists |-> FALSE, text |-> <<>>]
File(text) == [exists |-> TRUE, text |-> text]
\* saves counts the calls of save_history
NoIo == [load_ok |-> FALSE, save_ok |-> FALSE, saves |-> 0]
NoPrev == [ended |-> FALSE, saved |-> FALSE, loaded |-> <<>>, accepted |-> <<>>,
           history |-> <<>>, eof |-> FALSE]

\* the parts of the state of a freshly started process
IdleExec ==
  /\ to_run = <<>>
  /\ result = NoResult
  /\ toPrint = <<>>
  /\ emitted = <<>>
  /\ markers = 0
IdleRead ==
  /\ buffer = <<>>
  /\ validation = "None"
  /\ readline = NoReadline
IdleHist ==
  /\ history = <<>>
  /\ opt_history_file = FALSE
  /\ accepted = <<>>
  /\ loaded = <<>>
  /\ io = NoIo
IdleOut ==
  /\ chan = [c \in Channels |-> <<>>]
  /\ closed = FALSE
  /\ fwdLine = [c \in Channels |-> ""]
  /\ forwarded = [c \in Channels |-> <<>>]
  /\ sent = [c \in Channels |-> <<>>]
  /\ term = [c \in Channels |-> <<>>]

AllOptions == [disable_readline : BOOLEAN, ide_mode : BOOLEAN]

Fresh ==
  /\ pc = "start"
  /\ caller = "new"
  /\ fwd = [c \in Channels |-> "unspawned"]
  /\ IdleExec /\ IdleRead /\ IdleHist /\ IdleOut

\* history.txt before the first session: absent, or left by an earlier run
InitFiles == {NoFile, File(SaveText(<< <<"b">> >>))}

Init ==
  /\ Fresh
  /\ options \in AllOptions
  /\ historyFile \in InitFiles
  /\ session = 1
  /\ prev = NoPrev

\* ----- main, lines 238-250, and Repl::new
\* println!("Welcome to evcxr. For help, type :help");
MainStart ==
  /\ pc = "start"
  /\ term' = Put(term, "stdout", Banner)
  /\ pc' = "new"
  /\ UNCHANGED <<execVars, readVars, histVars, chanVars, fwdVars, procVars>>

\* a slip in main: the construction error is reported but main goes on
ReplNewFail_Continues ==
  /\ pc = "new"
  /\ term' = Put(term, "stderr", <<"error", "\n">>)
  /\ pc' = "setup"
  /\ UNCHANGED <<execVars, readVars, histVars, chanVars, fwdVars, procVars>>

\* CommandContext::new()? fails: main prints the error and returns
ReplNewFail ==
  /\ pc = "new"
  /\ term' = Put(term, "stderr", <<"error", "\n">>)
  /\ pc' = "done"
  /\ UNCHANGED <<execVars, readVars, histVars, chanVars, fwdVars, procVars>>

\* a slip in Repl::new: only the standard output channel gets a forwarder
ReplNew_OneForwarder ==
  /\ pc = "new"
  /\ fwd' = [fwd EXCEPT !["stdout"] = "recv"]
  /\ caller' = "new"
  /\ to_run' = LoadConfig
  /\ pc' = "exec_call"
  /\ UNCHANGED <<result, toPrint, emitted, markers, readVars, histVars,
                 chanVars, fwdLine, forwarded, term, procVars>>

\* CommandContext::new()? succeeds: both forwarders are spawned and
\* repl.execute(":load_config") is entered
ReplNew ==
  /\ pc = "new"
  /\ fwd' = [c \in Channels |-> "recv"]
  /\ caller' = "new"
  /\ to_run' = LoadConfig
  /\ pc' = "exec_call"
  /\ UNCHANGED <<result, toPrint, emitted, markers, readVars, histVars,
                 chanVars, fwdLine, forwarded, term, procVars>>

\* ----- Repl::execute
\* self.command_context.execute(to_run) returns
EngineCall(answers) ==
  /\ pc = "exec_call"
  /\ \E r \in answers :
       /\ result' = r
       /\ toPrint' = ExecuteOutput(r, options.ide_mode)
  /\ emitted' = <<>>
  /\ pc' = "exec_print"
  /\ UNCHANGED <<caller, to_run, markers, readVars, histVars, chanVars, fwdVars, term,
                 procVars>>

\* one println!/eprintln!/print! of execute or display_errors
ExecPrint ==
  /\ pc = "exec_print"
  /\ toPrint # <<>>
  /\ emitted' = Append(emitted, Head(toPrint))
  /\ markers' = IF IsMarker(Head(toPrint)) THEN markers + 1 ELSE markers
  /\ toPrint' = Tail(toPrint)
  /\ UNCHANGED <<pc, caller, to_run, result, readVars, histVars, chanVars,
                 fwdVars, term, procVars>>

\* a slip in Repl::new: a failure of the configuration command is passed up
\* and ends main
ReturnTo_ConfigErrorFatal(c, r) ==
  IF c = "new" THEN (IF r.tag = "Ok" THEN "setup" ELSE "done") ELSE "read"

\* a slip in execute: an engine error other than compilation errors is
\* passed up and ends main
ReturnTo_ErrorEnds(c, r) ==
  IF c = "new" THEN "setup" ELSE IF r.tag = "Other" THEN "save" ELSE "read"

\* where Repl::execute returns to, whatever the engine returned: Repl::new
\* (and then main's set-up), or the top of main's loop
ReturnTo(c, r) == IF c = "new" THEN "setup" ELSE "read"

ExecReturn ==
  /\ pc = "exec_print"
  /\ toPrint = <<>>
  /\ pc' = ReturnTo(caller, result)
  /\ UNCHANGED <<execVars, readVars, histVars, chanVars, fwdVars, term,
                 procVars>>

\* a slip in main: a history file that cannot be loaded ends the process
MainSetup_LoadFatal ==
  /\ pc = "setup"
  /\ \E config_dir \in BOOLEAN, load_ok \in BOOLEAN :
       /\ config_dir \/ ~load_ok
       /\ historyFile.exists \/ ~load_ok
       /\ opt_history_file' = config_dir
       /\ io' = [io EXCEPT !.load_ok = load_ok]
       /\ IF load_ok
          THEN history' = LoadText(historyFile.text)
          ELSE IF config_dir
          THEN history' \in LoadFailed(historyFile)
          ELSE history' = <<>>
       /\ pc' = IF config_dir /\ ~load_ok THEN "done" ELSE "read"
  /\ loaded' = history'
  /\ caller' = "main"
  /\ UNCHANGED <<to_run, result, toPrint, emitted, markers, readVars,
                 historyFile,
                 accepted, chanVars, fwdVars, term, procVars>>

\* ----- main, lines 252-263: set_opt_level(..).ok(), the editor, the history
MainSetup ==
  /\ pc = "setup"
  /\ \E config_dir \in BOOLEAN, load_ok \in BOOLEAN :
       /\ config_dir \/ ~load_ok
       /\ historyFile.exists \/ ~load_ok
       /\ opt_history_file' = config_dir
       /\ io' = [io EXCEPT !.load_ok = load_ok]
       /\ IF load_ok
          THEN history' = LoadText(historyFile.text)
          ELSE IF config_dir
          THEN history' \in LoadFailed(historyFile)
          ELSE history' = <<>>
  /\ loaded' = history'
  /\ caller' = "main"
  /\ pc' = "read"
  /\ UNCHANGED <<to_run, result, toPrint, emitted, markers, readVars,
                 historyFile,
                 accepted, chanVars, fwdVars, term, procVars>>

\* ----- editor.readline(&prompt): the user types a line and presses Enter;
\* the editor asks the validator and returns the buffer or goes on editing
NumLines(b) == Cardinality({i \in 1..Len(b) : b[i] = "\n"})

EditorEnter(lines, maxReads) ==
  /\ pc = "read"
  /\ ~options.disable_readline
  /\ Len(accepted) < maxReads
  /\ NumLines(buffer) < MaxBufLines
  /\ \E l \in lines :
       LET b == buffer \o l
           v == Validate(b)
       IN /\ validation' = v
          /\ IF v = "Valid"
             THEN /\ readline' = [tag |-> "Ok", line |-> b, validated |-> TRUE]
                  /\ buffer' = <<>>
                  /\ pc' = "match"
             ELSE /\ buffer' = b \o <<"\n">>
                  /\ UNCHANGED <<readline, pc>>
  /\ UNCHANGED <<execVars, histVars, chanVars, fwdVars, term, procVars>>

CtrlC == <<"CTRL-C", "\n">>
Interrupts ==
  Cardinality({i \in 1..Len(term.stdout) : term.stdout[i] = CtrlC})

\* editor.readline returns an error: Ctrl-C, Ctrl-D on an empty buffer, or
\* a failure of the terminal
EditorError ==
  /\ pc = "read"
  /\ ~options.disable_readline
  /\ \E e \in {"Interrupted", "Eof", "Io"} :
       /\ e = "Eof" => buffer = <<>>
       /\ e = "Interrupted" => Interrupts < MaxInterrupts
       /\ readline' = [tag |-> e, line |-> <<>>, validated |-> FALSE]
  /\ buffer' = <<>>
  /\ pc' = "match"
  /\ UNCHANGED <<execVars, validation, histVars, chanVars, fwdVars, term,
                 procVars>>

\* ----- readline_direct(&prompt): the prompt is written and flushed, then
\* one raw line is read from standard input
ReadlineDirect(lines, maxReads) ==
  /\ pc = "read"
  /\ options.disable_readline
  /\ \/ \* write_all or flush fails
        /\ readline' = [tag |-> "Io", line |-> <<>>, validated |-> FALSE]
        /\ term' = term
     \/ \* read_line fails
        /\ readline' = [tag |-> "Io", line |-> <<>>, validated |-> FALSE]
        /\ term' = Put(term, "stdout", PROMPT)
     \/ \* read_line returns 0 bytes
        /\ readline' = [tag |-> "Eof", line |-> <<>>, validated |-> FALSE]
        /\ term' = Put(term, "stdout", PROMPT)
     \/ /\ Len(accepted) < maxReads
        /\ \E raw \in lines :
             readline' = [tag |-> "Ok", line |-> ReplaceLS(raw),
                          validated |-> FALSE]
        /\ term' = Put(term, "stdout", PROMPT)
  /\ pc' = "match"
  /\ UNCHANGED <<execVars, buffer, validation, histVars, chanVars, fwdVars,
                 procVars>>

\* ----- match readline, lines 271-284
\* a slip in the Ok arm: the line is executed without being recorded
MatchOk_NotRecorded ==
  /\ pc = "match"
  /\ readline.tag = "Ok"
  /\ accepted' = Append(accepted, readline.line)
  /\ to_run' = readline.line
  /\ pc' = "exec_call"
  /\ UNCHANGED <<caller, result, toPrint, emitted, markers, readVars, history,
                 opt_history_file, historyFile, loaded, io, chanVars, fwdVars,
                 term, procVars>>

\* Ok(line): editor.add_history_entry(line.clone()); repl.execute(&line)
MatchOk ==
  /\ pc = "match"
  /\ readline.tag = "Ok"
  /\ history' = HistoryAdd(history, readline.line)
  /\ accepted' = Append(accepted, readline.line)
  /\ to_run' = readline.line
  /\ pc' = "exec_call"
  /\ UNCHANGED <<caller, result, toPrint, emitted, markers, readVars,
                 opt_history_file,
                 historyFile, loaded, io, chanVars, fwdVars, term, procVars>>

\* a slip in the Interrupted arm: it breaks out of the loop like Eof
MatchInterrupted_Break ==
  /\ pc = "match"
  /\ readline.tag = "Interrupted"
  /\ term' = Put(term, "stdout", CtrlC)
  /\ pc' = "save"
  /\ UNCHANGED <<execVars, readVars, histVars, chanVars, fwdVars, procVars>>

\* Err(ReadlineError::Interrupted): println!("CTRL-C")
MatchInterrupted ==
  /\ pc = "match"
  /\ readline.tag = "Interrupted"
  /\ term' = Put(term, "stdout", CtrlC)
  /\ pc' = "read"
  /\ UNCHANGED <<execVars, readVars, histVars, chanVars, fwdVars, procVars>>

\* Err(ReadlineError::Eof) => break
MatchEof ==
  /\ pc = "match"
  /\ readline.tag = "Eof"
  /\ pc' = "save"
  /\ UNCHANGED <<execVars, readVars, histVars, chanVars, fwdVars, term,
                 procVars>>

\* a slip in the last arm: the error is reported and the loop goes on
MatchErr_Continue ==
  /\ pc = "match"
  /\ readline.tag \notin {"Ok", "Interrupted", "Eof"}
  /\ term' = Put(term, "stderr", <<"Error: ", readline.tag, "\n">>)
  /\ pc' = "read"
  /\ UNCHANGED <<execVars, readVars, histVars, chanVars, fwdVars, procVars>>

\* Err(err) => { eprintln!("Error: {:?}", err); break }
MatchErr ==
  /\ pc = "match"
  /\ readline.tag \notin {"Ok", "Interrupted", "Eof"}
  /\ term' = Put(term, "stderr", <<"Error: ", readline.tag, "\n">>)
  /\ pc' = "save"
  /\ UNCHANGED <<execVars, readVars, histVars, chanVars, fwdVars, procVars>>

\* ----- lines 286-289: save the history, return from main
MainSave ==
  /\ pc = "save"
  /\ IF opt_history_file
     THEN \E ok \in BOOLEAN :
            /\ io' = [io EXCEPT !.save_ok = ok, !.saves = @ + 1]
            /\ historyFile' = IF ok THEN File(SaveText(history)) ELSE historyFile
     ELSE UNCHANGED <<io, historyFile>>
  /\ pc' = "drop"
  /\ UNCHANGED <<execVars, readVars, history, opt_history_file, accepted,
                 loaded, chanVars, fwdVars, term, procVars>>

\* main's locals are dropped: the engine goes away and with it the senders
MainDrop ==
  /\ pc = "drop"
  /\ closed' = TRUE
  /\ pc' = "exit"
  /\ UNCHANGED <<execVars, readVars, histVars, chan, sent, fwdVars, term,
                 procVars>>

\* main has returned: the process exits, which ends the threads still running
ProcessExit ==
  /\ pc = "exit"
  /\ fwd' = [c \in Channels |-> IF fwd[c] = "exited" THEN "exited" ELSE "killed"]
  /\ pc' = "done"
  /\ UNCHANGED <<execVars, readVars, histVars, chanVars, fwdLine, forwarded,
                 term, procVars>>

\* ----- the engine's side of the output channels: the evaluated code prints
EngineSend(outs, maxSend) ==
  /\ pc \in {"exec_call", "exec_print", "setup", "read", "match", "save", "drop"}
  /\ ~closed
  /\ Len(sent.stdout) + Len(sent.stderr) < maxSend
  /\ \E c \in Channels, v \in outs :
       /\ chan' = [chan EXCEPT ![c] = Append(@, v)]
       /\ sent' = [sent EXCEPT ![c] = Append(@, v)]
  /\ UNCHANGED <<pc, execVars, readVars, histVars, closed, fwdVars, term,
                 procVars>>

\* ----- send_output: the thread of one channel
\* a slip in the channel: the newest line is handed out first
Recv_Newest(q) == [line |-> q[Len(q)], rest |-> SubSeq(q, 1, Len(q) - 1)]

\* channel.recv() on a channel that holds a line: Ok(line)
Recv(q) == [line |-> Head(q), rest |-> Tail(q)]

ForwarderRecv(c) ==
  /\ fwd[c] = "recv"
  /\ chan[c] # <<>>
  /\ fwdLine' = [fwdLine EXCEPT ![c] = Recv(chan[c]).line]
  /\ chan' = [chan EXCEPT ![c] = Recv(chan[c]).rest]
  /\ fwd' = [fwd EXCEPT ![c] = "write"]
  /\ UNCHANGED <<pc, execVars, readVars, histVars, closed, sent, forwarded,
                 term, procVars>>

\* channel.recv() returns Err: the channel is empty and every sender is gone
ForwarderClosed(c) ==
  /\ fwd[c] = "recv"
  /\ chan[c] = <<>>
  /\ closed
  /\ fwd' = [fwd EXCEPT ![c] = "exited"]
  /\ UNCHANGED <<pc, execVars, readVars, histVars, chanVars, fwdLine,
                 forwarded, term, procVars>>

\* a slip in send_output: a failed write is skipped and the loop goes on
ForwarderWrite_Retry(c) ==
  /\ fwd[c] = "write"
  /\ \/ /\ forwarded' = Put(forwarded, c, <<fwdLine[c], "\n">>)
        /\ fwd' = [fwd EXCEPT ![c] = "recv"]
     \/ /\ forwarded' = forwarded
        /\ fwd' = [fwd EXCEPT ![c] = "recv"]
  /\ UNCHANGED <<pc, execVars, readVars, histVars, chanVars, fwdLine, term,
                 procVars>>

\* writeln!(output, "{}", line): written, or is_err() and break
ForwarderWrite(c) ==
  /\ fwd[c] = "write"
  /\ \/ /\ forwarded' = Put(forwarded, c, <<fwdLine[c], "\n">>)
        /\ fwd' = [fwd EXCEPT ![c] = "recv"]
     \/ /\ forwarded' = forwarded
        /\ fwd' = [fwd EXCEPT ![c] = "exited"]
  /\ UNCHANGED <<pc, execVars, readVars, histVars, chanVars, fwdLine, term,
                 procVars>>

Forwarder == \E c \in Channels :
  ForwarderRecv(c) \/ ForwarderClosed(c) \/ ForwarderWrite(c)

Startup == MainStart \/ ReplNewFail \/ ReplNew \/ MainSetup
Execute(answers) == EngineCall(answers) \/ ExecPrint \/ ExecReturn
Match == MatchOk \/ MatchInterrupted \/ MatchEof \/ MatchErr
Shutdown == MainSave \/ MainDrop \/ ProcessExit

Next ==
  \/ Startup
  \/ Execute(EngineResults)
  \/ EditorEnter(TypedLines, MaxAccepted) \/ EditorError
  \/ ReadlineDirect(StdinLines, MaxAccepted)
  \/ Match
  \/ Shutdown
  \/ EngineSend(OutputLines, MaxSend)
  \/ Forwarder

Spec == Init /\ [][Next]_vars

\* ----- the validator on its own: Enter is pressed on any buffer
Buffers == SeqsUpTo(Tok, MaxLen)

InitValidate ==
  /\ pc = "validate"
  /\ options = [disable_readline |-> FALSE, ide_mode |-> FALSE]
  /\ caller = "main"
  /\ fwd = [c \in Channels |-> "recv"]
  /\ buffer \in Buffers
  /\ validation = "None"
  /\ readline = NoReadline
  /\ IdleExec /\ IdleHist /\ IdleOut
  /\ historyFile = NoFile
  /\ session = 1
  /\ prev = NoPrev

ValidateStep ==
  /\ pc = "validate"
  /\ validation' = Validate(buffer)
  /\ pc' = "validated"
  /\ UNCHANGED <<execVars, buffer, readline, histVars, chanVars, fwdVars, term,
                 procVars>>

SpecValidate == InitValidate /\ [][ValidateStep]_vars

\* ----- Repl::execute on its own: the engine answers a line with any of a
\* family of compilation errors
Spans == {None} \cup {Some(Span(s, e)) : s \in 0..MaxCol, e \in 0..MaxCol}
RenderAnswers ==
  {OkValue, OkTimed, OtherErr}
  \cup {Result("CompilationErrors", None, None, <<>>,
                << Diagnostic(user, << [span |-> sp, label |-> "L"],
                                       [span |-> Some(Span(1, 3)), label |-> "K"] >>,
                              <<"H">>, hint),
                   Diagnostic(FALSE, <<>>, <<>>, None) >>, "")
          : user \in BOOLEAN, sp \in Spans, hint \in {None, Some("N")}}

InitRender ==
  /\ pc = "exec_call"
  /\ options \in {o \in AllOptions : ~o.disable_readline}
  /\ caller = "main"
  /\ fwd = [c \in Channels |-> "recv"]
  /\ to_run = <<"a">>
  /\ result = NoResult
  /\ toPrint = <<>>
  /\ emitted = <<>>
  /\ markers = IF options.ide_mode THEN 1 ELSE 0
  /\ buffer = <<>>
  /\ validation = "Valid"
  /\ readline = [tag |-> "Ok", line |-> <<"a">>, validated |-> TRUE]
  /\ history = << <<"a">> >>
  /\ opt_history_file = FALSE
  /\ accepted = << <<"a">> >>
  /\ loaded = <<>>
  /\ io = NoIo
  /\ IdleOut
  /\ historyFile = NoFile
  /\ session = 1
  /\ prev = NoPrev

SpecRender == InitRender /\ [][Execute(RenderAnswers)]_vars

\* ----- the output channels looked at closely: the evaluated code prints
\* several different lines while the user enters little
NextOut ==
  \/ Startup
  \/ Execute({OkValue, OtherErr})
  \/ EditorEnter({<<"a">>}, OutReads) \/ EditorError
  \/ ReadlineDirect({<<"a", "\n">>}, OutReads)
  \/ Match
  \/ Shutdown
  \/ EngineSend({"x", "y"}, OutSend)
  \/ Forwarder

InitOut ==
  /\ Fresh
  /\ options \in AllOptions
  /\ historyFile = NoFile
  /\ session = 1
  /\ prev = NoPrev

SpecOut == InitOut /\ [][NextOut]_vars

\* ----- the history file followed from one session to the next
\* the program is started again after it has ended
Restart(opts) ==
  /\ pc = "done"
  /\ session < MaxSessions
  /\ session' = session + 1
  /\ prev' = [ended |-> TRUE,
              saved |-> opt_history_file /\ io.save_ok,
              loaded |-> loaded,
              accepted |-> accepted,
              history |-> history,
              eof |-> readline.tag = "Eof"]
  /\ pc' = "start"
  /\ options' \in opts
  /\ caller' = "new"
  /\ fwd' = [c \in Channels |-> "unspawned"]
  /\ to_run' = <<>> /\ result' = NoResult /\ toPrint' = <<>>
  /\ emitted' = <<>> /\ markers' = 0
  /\ buffer' = <<>> /\ validation' = "None" /\ readline' = NoReadline
  /\ history' = <<>> /\ opt_history_file' = FALSE /\ accepted' = <<>>
  /\ loaded' = <<>> /\ io' = NoIo
  /\ chan' = [c \in Channels |-> <<>>] /\ closed' = FALSE
  /\ fwdLine' = [c \in Channels |-> ""]
  /\ forwarded' = [c \in Channels |-> <<>>]
  /\ sent' = [c \in Channels |-> <<>>]
  /\ term' = [c \in Channels |-> <<>>]
  /\ UNCHANGED historyFile

HistLines == {<<>>, <<"a">>, <<"b">>, <<"c">>, <<"fn", "{">>, <<"}">>}
HistStdin == {<<"a", "\n">>, <<"b", "\n">>, <<"\n">>, <<"a">>}
ReadsLeft == HistReads - Len(prev.accepted)
HistOptions == {o \in AllOptions : ~o.ide_mode}

NextHist ==
  \/ Startup
  \/ Execute({OkValue, OtherErr})
  \/ EditorEnter(HistLines, ReadsLeft) \/ EditorError
  \/ ReadlineDirect(HistStdin, ReadsLeft)
  \/ Match
  \/ Shutdown
  \/ Restart(HistOptions)

InitHist ==
  /\ Fresh
  /\ options \in HistOptions
  /\ historyFile = NoFile
  /\ session = 1
  /\ prev = NoPrev

SpecHist == InitHist /\ [][NextHist]_vars

\* the foreground thread always gets to run, and the engine call returns
FairSpec == Spec /\ WF_vars(Execute(EngineResults)) /\ WF_vars(Match)

\* the foreground thread always gets to run from start to end; only the
\* user decides when a line arrives
FairMain ==
  /\ Spec
  /\ WF_vars(Startup)
  /\ WF_vars(Execute(EngineResults))
  /\ WF_vars(Match)
  /\ WF_vars(Shutdown)

\* the output channels with every thread scheduled: the foreground thread
\* and both forwarders always get to run
FairOut ==
  /\ SpecOut
  /\ WF_vars(Startup)
  /\ WF_vars(Execute({OkValue, OtherErr}))
  /\ WF_vars(Match)
  /\ WF_vars(Shutdown)
  /\ \A c \in Channels :
       WF_vars(ForwarderRecv(c) \/ ForwarderClosed(c) \/ ForwarderWrite(c))

\* ------------------------------------------------------------------ claims
\* a call of Repl::execute has printed everything and is about to return
ExecDone == pc = "exec_print" /\ toPrint = <<>>
MarkersIn(items) == SelectSeq(items, IsMarker)

\* C1: in IDE mode a call of Repl::execute prints exactly one marker byte,
\* as the last thing it prints, and the byte is the failure marker exactly
\* when the engine returned an error; the marker is never printed while
\* output of the call is still pending.
C1_OneMarkerPerCall ==
  pc = "exec_print" =>
    /\ Len(MarkersIn(emitted)) <= 1
    /\ options.ide_mode /\ MarkersIn(emitted) # <<>> => toPrint = <<>>
    /\ ExecDone /\ options.ide_mode =>
         /\ Len(MarkersIn(emitted)) = 1
         /\ emitted[Len(emitted)] =
              OutItem(IF result.tag = "Ok" THEN SuccessMarker ELSE FailureMarker)
    /\ ~options.ide_mode => MarkersIn(emitted) = <<>>

C1_Witness ==
  /\ ExecDone
  /\ options.ide_mode
  /\ caller = "main"
  /\ result.tag = "CompilationErrors"
  /\ Len(emitted) > 1
  /\ emitted[Len(emitted)].text = FailureMarker

\* the positions of main's loop (lines 264-285), execute included
LoopPcs == {"read", "match", "exec_call", "exec_print"}
InLoop == pc \in LoopPcs /\ caller = "main"

\* C2: whatever the engine returns for an accepted line, execute returns to
\* the top of the loop, where the next read is issued; main leaves the loop
\* only from the match on a read that returned Eof or an error other than
\* Interrupted; and every dispatched line does lead back to the read.
C2_EvaluationNeverEndsSession ==
  /\ [][InLoop /\ pc = "exec_print" /\ pc' # "exec_print" => pc' = "read"]_vars
  /\ [][InLoop /\ pc' \notin LoopPcs =>
          /\ pc = "match"
          /\ readline.tag \notin {"Ok", "Interrupted"}
          /\ pc' = "save"]_vars
  /\ (InLoop /\ pc = "exec_call") ~> (pc = "read")

C2_Witness ==
  /\ pc = "read"
  /\ caller = "main"
  /\ Len(accepted) = 2
  /\ result.tag = "Other"

\* the engine has been called with a line the user entered
Dispatched == pc = "exec_print" /\ caller = "main"

\* C3 as stated: no buffer the validator would report Incomplete is ever
\* dispatched, in any mode.
C3_Original == Dispatched => Validate(to_run) = "Valid"

\* C3: with the line editor in use, every user-entered snippet passed to the
\* engine was judged Valid by the validator (it has the command prefix or
\* parses, wrapped, as a statement); with --disable-readline the raw line is
\* passed to the engine without the validator being asked.
C3_EditorDispatchesComplete ==
  Dispatched =>
    /\ to_run = readline.line
    /\ ~options.disable_readline =>
         /\ readline.validated
         /\ StartsWith(to_run, ":") \/ ParseStmtOk(<<"fn", "{">> \o to_run \o <<"}">>)
    /\ options.disable_readline => ~readline.validated

C3_Witness ==
  /\ Dispatched
  /\ ~options.disable_readline
  /\ to_run = <<"fn", "{", "\n", "}">>

\* C4: a buffer that begins with ':' is Valid whatever follows.
C4_CommandAlwaysComplete ==
  pc = "validated" /\ StartsWith(buffer, ":") => validation = "Valid"

C4_Witness ==
  /\ pc = "validated"
  /\ buffer = <<":", "}", "{">>
  /\ ~ParseStmtOk(<<"fn", "{">> \o buffer \o <<"}">>)
  /\ validation = "Valid"

\* C5: a buffer that does not begin with ':' is Valid exactly when, wrapped
\* as the body of a function, it parses as one statement, and Incomplete
\* otherwise; "fn f() {" is Incomplete and "fn f() {\n}" is Valid.
C5_CompleteIffParses ==
  pc = "validated" /\ ~StartsWith(buffer, ":") =>
    /\ validation \in {"Valid", "Incomplete"}
    /\ validation = "Valid" <=> ParseStmtOk(<<"fn", "{">> \o buffer \o <<"}">>)
    /\ buffer = <<"fn", "{">> => validation = "Incomplete"
    /\ buffer = <<"fn", "{", "\n", "}">> => validation = "Valid"
    /\ buffer \in {<<"a">>, <<"a", ";">>, <<"a", ";", "b">>, <<"{", "}", "a">>}
         => validation = "Valid"
    /\ buffer \in {<<"a", "b">>, <<"}">>, <<"}", "fn", "{">>, <<"fn">>, <<"{">>}
         => validation = "Incomplete"

C5_Witness ==
  /\ pc = "validated"
  /\ buffer = <<"fn", "{", "\n", "}">>
  /\ validation = "Valid"

\* C6: Enter on an empty buffer is judged Valid: the editor returns the empty
\* line instead of opening a continuation, the empty line is passed to the
\* engine, and the loop comes back to the next read.
BlankAccepted == pc = "match" /\ readline.tag = "Ok" /\ readline.line = <<>>

C6_BlankEnterProgresses ==
  /\ [](pc = "read" => buffer # <<"\n">>)
  /\ [](BlankAccepted => readline.validated /\ validation = "Valid")
  /\ BlankAccepted ~> (Dispatched /\ to_run = <<>>)
  /\ (Dispatched /\ to_run = <<>>) ~> (pc = "read")

C6_Witness ==
  /\ pc = "read"
  /\ caller = "main"
  /\ ~options.disable_readline
  /\ accepted = << <<>> >>
  /\ to_run = <<>>
  /\ buffer = <<>>

\* the length of the run of character c that starts at position i of t
RECURSIVE RunLen(_, _, _)
RunLen(t, i, c) ==
  IF i <= Len(t) /\ t[i] = c THEN 1 + RunLen(t, i + 1, c) ELSE 0
LeadingSpaces(t) == RunLen(t, 1, " ")
Carets(t) == RunLen(t, LeadingSpaces(t) + 1, "^")

\* the engine returned compilation errors whose first diagnostic comes from
\* user code and whose first spanned message has a span; display_errors has
\* printed everything (the caret line of that message is the first line)
FirstSpanRendered ==
  /\ ExecDone
  /\ result.tag = "CompilationErrors"
  /\ result.errors[1].is_from_user_code
  /\ result.errors[1].spanned_messages[1].span # None
FirstSpan == result.errors[1].spanned_messages[1].span[1]

\* C7 as stated: start_column + prompt_width leading spaces, then
\* end_column - start_column carets.
C7_Original ==
  FirstSpanRendered /\ FirstSpan.end_column > FirstSpan.start_column =>
    /\ LeadingSpaces(emitted[1].text) = FirstSpan.start_column + Len(PROMPT)
    /\ Carets(emitted[1].text) = FirstSpan.end_column - FirstSpan.start_column

\* C7: the caret line is start_column + prompt_width - 1 spaces (the loop
\* runs over 1..start_column + PROMPT.len()), then end_column - start_column
\* carets when end_column >= start_column, then a space, the label and the
\* end of the line; span (4, 7) gives 6 leading spaces and 3 carets.
C7_CaretLine ==
  FirstSpanRendered /\ FirstSpan.end_column >= FirstSpan.start_column =>
    /\ emitted[1] =
         OutItem([i \in 1..(FirstSpan.start_column + Len(PROMPT) - 1) |-> " "]
                 \o [i \in 1..(FirstSpan.end_column - FirstSpan.start_column) |-> "^"]
                 \o <<" ", result.errors[1].spanned_messages[1].label, "\n">>)
    /\ FirstSpan.end_column > FirstSpan.start_column =>
         /\ LeadingSpaces(emitted[1].text) = FirstSpan.start_column + Len(PROMPT) - 1
         /\ Carets(emitted[1].text) = FirstSpan.end_column - FirstSpan.start_column
    /\ FirstSpan = Span(4, 7) =>
         /\ LeadingSpaces(emitted[1].text) = 6
         /\ Carets(emitted[1].text) = 3

C7_Witness ==
  /\ FirstSpanRendered
  /\ FirstSpan = Span(4, 7)
  /\ emitted[1].text = <<" ", " ", " ", " ", " ", " ", "^", "^", "^", " ", "L", "\n">>

\* the lines a forwarder has written, without their line ends
WrittenLines(c) == [i \in 1..Len(forwarded[c]) |-> forwarded[c][i][1]]

\* C8: on each channel the lines written to the terminal stream are, in
\* order, the first lines that were sent on it: every written line ends
\* with a newline, nothing is written twice or out of order, whatever the
\* other forwarder and the foreground thread do in between.
C8_ForwarderFifo ==
  \A c \in Channels :
    /\ IsPrefix(WrittenLines(c), sent[c])
    /\ \A i \in 1..Len(forwarded[c]) : forwarded[c][i] = <<sent[c][i], "\n">>

C8_Witness ==
  /\ sent.stdout = <<"x", "y">>
  /\ forwarded.stdout = << <<"x", "\n">>, <<"y", "\n">> >>
  /\ pc = "exec_print"
  /\ emitted # <<>>

\* what the editor's history holds after the lines ls were offered to a
\* history h: empty lines and repeats of the newest entry are not recorded
RECURSIVE Recorded(_, _)
Recorded(h, ls) ==
  IF ls = <<>> THEN h
  ELSE Recorded(IF Head(ls) = <<>> \/ (h # <<>> /\ h[Len(h)] = Head(ls))
                THEN h
                ELSE h \o <<Head(ls)>>,
                Tail(ls))

NoNewline(h) == \A i \in 1..Len(h) : \A j \in 1..Len(h[i]) : h[i][j] # "\n"

\* a later session has loaded the file the previous one saved: the previous
\* session ended with end of input and saved, this one has just loaded
LoadedAfterSave ==
  /\ session > 1
  /\ pc = "read"
  /\ accepted = <<>>
  /\ buffer = <<>>
  /\ prev.saved
  /\ prev.eof
  /\ io.load_ok

C11_InterruptOnlyReprompts ==
  /\ [](readline.tag = "Interrupted" => ~options.disable_readline)
  /\ [](pc = "match" /\ readline.tag = "Interrupted" => buffer = <<>>)
  /\ [][pc = "match" /\ readline.tag = "Interrupted" /\ pc' # pc =>
          /\ pc' = "read"
          /\ term'.stdout = Append(term.stdout, CtrlC)
          /\ term'.stderr = term.stderr
          /\ UNCHANGED <<caller, to_run, result, emitted, markers>>
          /\ UNCHANGED <<history, accepted, historyFile, loaded>>
          /\ UNCHANGED <<fwd, fwdLine, forwarded, chan, closed, sent>>]_vars

C11_Witness ==
  /\ pc = "read"
  /\ readline.tag = "Interrupted"
  /\ term.stdout[Len(term.stdout)] = CtrlC
  /\ options.ide_mode
  /\ markers = 2
  /\ history # <<>>
  /\ fwd.stdout = "write"

\* main has left its loop (the engine was constructed, so the forwarders
\* were spawned)
Spawned == \A c \in Channels : fwd[c] # "unspawned"
LoopLeft == pc \in {"save", "drop", "exit"} \/ (pc = "done" /\ Spawned)

\* C12: a read that returned Eof or an error other than Interrupted makes
\* main leave the loop at once; from then on no prompt is written, no line
\* is read, the engine is not called and the history does not change;
\* save_history is called exactly once when main holds a history path (and
\* never otherwise), with the whole in-memory history, after the loop and
\* before the process ends, and nothing else writes the history file.
C12_EndOfInputEndsLoop ==
  /\ [][pc = "match" /\ readline.tag \notin {"Ok", "Interrupted"} /\ pc' # pc =>
          /\ pc' = "save"
          /\ UNCHANGED <<to_run, result, emitted, markers, accepted, history>>]_vars
  /\ [](LoopLeft => readline.tag \notin {"Ok", "Interrupted", "None"})
  /\ [][LoopLeft =>
          /\ LoopLeft'
          /\ UNCHANGED <<to_run, result, emitted, markers, accepted, history,
                         readline, term>>]_vars
  /\ [](pc \in LoopPcs \cup {"save"} => io.saves = 0)
  /\ [](LoopLeft /\ pc # "save" => io.saves = IF opt_history_file THEN 1 ELSE 0)
  /\ [][io'.saves # io.saves \/ historyFile' # historyFile =>
          /\ pc = "save" /\ pc' = "drop"
          /\ opt_history_file
          /\ io'.saves = io.saves + 1
          /\ historyFile' \in {historyFile, File(SaveText(history))}
          /\ io'.save_ok => historyFile' = File(SaveText(history))]_vars

C12_Witness ==
  /\ pc = "done"
  /\ readline.tag = "Io"
  /\ Len(accepted) = 2
  /\ history # <<>>
  /\ io.saves = 1
  /\ io.save_ok
  /\ historyFile = File(SaveText(history))

\* C13: the banner is the first thing printed, before the engine is
\* constructed; when CommandContext::new fails, main prints the error on
\* standard error and returns: the process ends having printed only the
\* banner and the error, without a prompt or a read, without an engine call
\* or a marker byte, without a forwarder, and without loading, changing or
\* saving the history.
C13_ConstructionFailureIsFatal ==
  /\ [](pc # "start" => term.stdout # <<>> /\ term.stdout[1] = Banner)
  /\ [](Spawned \/ \A c \in Channels : fwd[c] = "unspawned")
  /\ [](~Spawned => pc \in {"start", "new", "done"})
  /\ [](pc = "done" /\ ~Spawned =>
          /\ term = [stdout |-> <<Banner>>, stderr |-> << <<"error", "\n">> >>]
          /\ to_run = <<>> /\ result = NoResult /\ emitted = <<>> /\ markers = 0
          /\ readline = NoReadline /\ accepted = <<>> /\ buffer = <<>>
          /\ history = <<>> /\ loaded = <<>> /\ io = NoIo /\ ~opt_history_file
          /\ forwarded = [c \in Channels |-> <<>>])
  /\ [][~Spawned' => historyFile' = historyFile]_vars

C13_Witness ==
  /\ pc = "done"
  /\ ~Spawned
  /\ historyFile.exists
  /\ term.stderr = << <<"error", "\n">> >>

\* C14: Repl::new, once the engine is constructed, calls execute with
\* ":load_config"; that call is the only one made from Repl::new and comes
\* before anything is read or any prompt is written; whatever the engine
\* returns for it, execute returns to Repl::new, main goes on to its set-up
\* and from there to the first read, which is always reached.
C14_LoadConfigOnceResultIgnored ==
  /\ [][pc' = "exec_call" /\ pc # "exec_call" =>
          \/ pc = "new" /\ caller' = "new" /\ to_run' = LoadConfig
          \/ pc = "match" /\ caller' = "main" /\ to_run' = readline.line]_vars
  /\ [][pc' = "new" => pc \in {"start", "new"}]_vars
  /\ [][caller = "main" => caller' = "main"]_vars
  /\ [](caller = "new" /\ pc \in {"exec_call", "exec_print", "setup"} =>
          /\ to_run = LoadConfig
          /\ accepted = <<>> /\ readline = NoReadline
          /\ term.stdout = <<Banner>>)
  /\ [][caller = "new" /\ pc = "exec_print" /\ pc' # pc => pc' = "setup"]_vars
  /\ [][pc = "setup" /\ pc' # pc => pc' = "read" /\ caller' = "main"]_vars
  /\ (pc = "exec_call" /\ caller = "new") ~> (pc = "read" /\ accepted = <<>>)

C14_Witness ==
  /\ pc = "read"
  /\ accepted = <<>>
  /\ to_run = LoadConfig
  /\ result.tag = "CompilationErrors"
  /\ readline = NoReadline

\* the first spanned message rendered has a span that ends at or before its
\* start
MalformedFirst ==
  FirstSpanRendered /\ FirstSpan.end_column <= FirstSpan.start_column
CountOf(t, c) == Cardinality({i \in 1..Len(t) : t[i] = c})

\* C15: for a span with end_column <= start_column (start_column from 0 up)
\* display_errors prints start_column + prompt_width - 1 spaces, no caret at
\* all, a space and the label, and then goes on as for any other span: the
\* next spanned message with its carets, the message, the help lines, the
\* extra hint if there is one, the next diagnostic, and in IDE mode the
\* marker byte of the call.
C15_MalformedSpanRendersNoCarets ==
  MalformedFirst =>
    /\ emitted[1] =
         OutItem([i \in 1..(FirstSpan.start_column + Len(PROMPT) - 1) |-> " "]
                 \o <<" ", result.errors[1].spanned_messages[1].label, "\n">>)
    /\ CountOf(emitted[1].text, "^") = 0
    /\ emitted[2] = OutItem(<<" ", " ", " ", "^", "^", " ", "K", "\n">>)
    /\ emitted[3] = OutItem(<<"E", "\n">>)
    /\ emitted[4] = OutItem(<<"help:", " ", "H", "\n">>)
    /\ LET hint == result.errors[1].evcxr_extra_hint
           n == 4 + Len(hint)
       IN /\ hint # None => emitted[5] = OutItem(<<hint[1], "\n">>)
          /\ emitted[n + 1].text[1] =
               "A compilation error was found in code we generated."
          /\ options.ide_mode => emitted[n + 2] = OutItem(FailureMarker)
          /\ Len(emitted) = n + 1 + (IF options.ide_mode THEN 1 ELSE 0)

C15_Witness ==
  /\ MalformedFirst
  /\ FirstSpan = Span(5, 2)
  /\ emitted[1].text = <<" ", " ", " ", " ", " ", " ", " ", " ", "L", "\n">>
  /\ Len(emitted) = 7

\* C16: a forwarder leaves its loop only when recv fails (the senders are
\* gone and the channel is empty) or when its write fails; until then it has
\* written every line it took from the channel; once it has exited it writes
\* nothing more, whatever is still queued; its exit changes nothing for the
\* other forwarder or the foreground thread, which both carry on; and when
\* the senders are gone and the channel is drained it does end.
C16_ForwarderTerminates ==
  /\ [](\A c \in Channels :
          /\ fwd[c] = "recv" => Len(forwarded[c]) + Len(chan[c]) = Len(sent[c])
          /\ fwd[c] = "write" =>
               Len(forwarded[c]) + Len(chan[c]) + 1 = Len(sent[c]))
  /\ [][\A c \in Channels :
          fwd[c] # "exited" /\ fwd'[c] = "exited" =>
            /\ \/ fwd[c] = "recv" /\ closed /\ chan[c] = <<>>
               \/ fwd[c] = "write" /\ forwarded'[c] = forwarded[c]
            /\ pc' = pc
            /\ \A d \in Channels \ {c} :
                 fwd'[d] = fwd[d] /\ forwarded'[d] = forwarded[d]]_vars
  /\ [][\A c \in Channels :
          fwd[c] = "exited" =>
            fwd'[c] = "exited" /\ forwarded'[c] = forwarded[c]]_vars
  /\ \A c \in Channels :
       (closed /\ fwd[c] = "recv" /\ chan[c] = <<>>)
         ~> (fwd[c] \in {"exited", "killed"})
  /\ \A c \in Channels : \A d \in Channels \ {c} :
       (fwd[c] = "exited" /\ fwd[d] = "write") ~> (fwd[d] # "write")
  /\ ((\E c \in Channels : fwd[c] = "exited") /\ pc = "exec_call")
       ~> (pc \in {"setup", "read"})

C16_Witness ==
  /\ fwd.stdout = "exited"
  /\ chan.stdout # <<>>
  /\ forwarded.stdout = <<>>
  /\ fwd.stderr = "recv"
  /\ ~closed
  /\ pc = "read"
  /\ accepted # <<>>

\* C17: the forwarders are spawned together, one per channel, in the step of
\* Repl::new that follows the construction of the engine, and never again;
\* a line leaves a channel only into that channel's own forwarder; the
\* engine is called by the foreground thread alone, from Repl::new or from
\* the Ok arm of main's match, and only after the previous call has printed
\* everything and returned; a step of a forwarder never touches the call.
C17_TwoForwardersOneCaller ==
  /\ [](Spawned \/ \A c \in Channels : fwd[c] = "unspawned")
  /\ [][\A c \in Channels :
          /\ fwd[c] = "unspawned" /\ fwd'[c] # "unspawned" =>
               /\ pc = "new" /\ pc' = "exec_call"
               /\ \A d \in Channels : fwd[d] = "unspawned" /\ fwd'[d] = "recv"
          /\ fwd[c] # "unspawned" => fwd'[c] # "unspawned"
          /\ Len(chan'[c]) < Len(chan[c]) =>
               /\ fwd[c] = "recv" /\ fwd'[c] = "write"
               /\ fwdLine'[c] = Head(chan[c])
               /\ chan'[c] = Tail(chan[c])]_vars
  /\ [][pc' = "exec_call" /\ pc # "exec_call" =>
          pc \in {"new", "match"} /\ toPrint = <<>>]_vars
  /\ [][to_run' # to_run \/ result' # result \/ toPrint' # toPrint =>
          /\ pc \in {"new", "match", "exec_call", "exec_print"}
          /\ pc' \in {"exec_call", "exec_print"}
          /\ pc = "new" \/ (fwd' = fwd /\ forwarded' = forwarded)]_vars
  /\ [][(fwd' # fwd \/ forwarded' # forwarded) /\ pc \notin {"new", "exit"} =>
          UNCHANGED <<pc, caller, to_run, result, toPrint, emitted, markers>>]_vars

C17_Witness ==
  /\ pc = "exec_call"
  /\ caller = "main"
  /\ Len(accepted) = 2
  /\ fwd.stdout = "write"
  /\ fwd.stderr = "recv"

C19_MarkersCountCallsPlusOne ==
  /\ ~options.ide_mode => markers = 0 /\ MarkersIn(emitted) = <<>>
  /\ options.ide_mode =>
       /\ pc \in {"read", "match"} => markers = Len(accepted) + 1
       /\ pc = "setup" => markers = 1 /\ IsMarker(emitted[Len(emitted)])
       /\ pc = "exec_call" =>
            markers = (IF caller = "new" THEN 0 ELSE Len(accepted))
       /\ LoopLeft => markers = Len(accepted) + 1

C19_Witness ==
  /\ pc = "read"
  /\ options.ide_mode
  /\ readline.tag = "Interrupted"
  /\ Len(accepted) = 2
  /\ markers = 3
  /\ result.tag = "Other"

\* C20: a line the engine has sent on a channel while main was still in its
\* loop is written to that channel's stream before the process ends (unless
\* the forwarder gave up on a failed write).
C20_NoOutputLost ==
  \A c \in Channels :
    (pc \in LoopPcs /\ sent[c] # <<>>)
      ~> (forwarded[c] # <<>> \/ fwd[c] = "exited")

====
